---- MODULE Spec2Model ----
(***************************************************************************)
(* Model of src/src/SEIR.py: the explicit Euler integrator (euler), the    *)
(* SEIR derivative function (SEIR_model.f), the simulation entry point     *)
(* (SEIR_simulation) and the interactive update handler (diagram.update).  *)
(*                                                                         *)
(* Real numbers are exact rationals <<numerator, denominator>> in lowest   *)
(* terms with a positive denominator, so arithmetic is the exact           *)
(* arithmetic the formulas of the program denote (floating-point rounding  *)
(* is not modelled).  numpy arrays are objects on a heap and Python names  *)
(* hold references to them, so aliasing (x = x0) is visible.               *)
(***************************************************************************)
EXTENDS Integers, Sequences, FiniteSets, TLC

(***************************************************************************)
(* Bounds of the model.                                                    *)
(***************************************************************************)
\* beta, alpha, gamma range over 0/2 .. MaxRateNum/2
MaxRateNum == 2
\* E0, I0 range over -1/2 .. MaxFracNum/2
MaxFracNum == 3
\* days ranges over -1 .. MaxDays
MaxDays == 2
\* step sizes range over -1/2 .. MaxStepNum/2
MaxStepNum == 3
\* t1 of a direct call of euler ranges over -1 .. MaxT1
MaxT1 == 3
\* a run is followed as long as every numerator and denominator of the
\* state vector, the rates and the step size is at most MaxNum in absolute
\* value
MaxNum == 4096
\* a run is followed for at most MaxSteps iterations of euler's loop
MaxSteps == 12

(***************************************************************************)
(* Exact rational arithmetic (the Python operators on numbers).            *)
(***************************************************************************)
Abs(i) == IF i < 0 THEN -i ELSE i

RECURSIVE GCD(_, _)
GCD(a, b) == IF b = 0 THEN a ELSE GCD(b, a % b)

LCM(a, b) == (a \div GCD(a, b)) * b

\* the rational n/d (d # 0) in lowest terms with a positive denominator
Rat(n, d) ==
  LET g == GCD(Abs(n), Abs(d))
      s == IF d < 0 THEN -1 ELSE 1
  IN  << s * (n \div g), (s * d) \div g >>

Zero == << 0, 1 >>
One == << 1, 1 >>
FromInt(i) == << i, 1 >>

\* a + b
RAdd(a, b) ==
  LET L == LCM(a[2], b[2])
  IN  Rat(a[1] * (L \div a[2]) + b[1] * (L \div b[2]), L)

\* -a
RNeg(a) == << -a[1], a[2] >>

\* a - b
RSub(a, b) == RAdd(a, RNeg(b))

\* a * b
RMul(a, b) ==
  LET g1 == GCD(Abs(a[1]), b[2])
      g2 == GCD(Abs(b[1]), a[2])
  IN  << (a[1] \div g1) * (b[1] \div g2), (a[2] \div g2) * (b[2] \div g1) >>

\* a / b for b # 0 (Python raises ZeroDivisionError for b = 0)
RDiv(a, b) == RMul(a, Rat(b[2], b[1]))

\* a <= b
RLe(a, b) ==
  LET L == LCM(a[2], b[2])
  IN  a[1] * (L \div a[2]) <= b[1] * (L \div b[2])

\* a < b
RLt(a, b) == RLe(a, b) /\ a # b

\* int(a): truncation toward zero
Trunc(a) ==
  IF a[1] >= 0 THEN a[1] \div a[2] ELSE -((-a[1]) \div a[2])

(***************************************************************************)
(* numpy vectors: element-wise sum and scalar multiple.                    *)
(***************************************************************************)
VAdd(u, v) == [i \in 1..Len(u) |-> RAdd(u[i], v[i])]

VScale(c, v) == [i \in 1..Len(v) |-> RMul(c, v[i])]

(***************************************************************************)
(* State.                                                                  *)
(***************************************************************************)
VARIABLES
  pc,          \* "idle", "loop" (inside euler's for loop), "done", "raised"
  caller,      \* entry point of the running call: "none", "euler", "sim", "update"
  f,           \* the closure of SEIR_model: its captured beta, alpha, gamma
  simargs,     \* E0, I0, days, step of the running SEIR_simulation call
  t0, t1, h,   \* parameters of euler
  heap,        \* the numpy arrays allocated so far; a reference is an index
  x0,          \* euler's parameter x0 (a reference)
  x,           \* euler's local x (a reference)
  t,           \* euler's local t
  k,           \* euler's loop variable: the next value range() yields
  n,           \* the bound of range(0, n)
  trajectory,  \* euler's local list of [t, x] (x a reference)
  fcalls,      \* the calls of f made so far: << t, value of x >>
  result,      \* the value returned to the caller
  err,         \* the exception that left the call, "none" if none
  texts,       \* the text of the six text boxes
  slider,      \* slider_R0.val
  lines,       \* the data of line_S, line_E, line_I, line_R
  outcome      \* how the last run of update ended

coreVars == << pc, caller, f, simargs, t0, t1, h, heap, x0, x, t, k, n,
               trajectory, fcalls, result, err >>
uiVars == << texts, slider, lines, outcome >>
vars == << pc, caller, f, simargs, t0, t1, h, heap, x0, x, t, k, n,
           trajectory, fcalls, result, err, texts, slider, lines, outcome >>

(***************************************************************************)
(* SEIR_model: the derivative function f closed over beta, alpha, gamma.   *)
(***************************************************************************)
\* dE/dt without the outflow to I
SEIRfNoOutflow(beta, alpha, gamma, tt, xv) ==
  LET S == xv[1]  E == xv[2]  I == xv[3]
      bSI == RMul(RMul(beta, S), I)
  IN  << RMul(RMul(RNeg(beta), S), I),
         bSI,
         RSub(RMul(alpha, E), RMul(gamma, I)),
         RMul(gamma, I) >>

\* dR/dt with the wrong sign
SEIRfSignSlip(beta, alpha, gamma, tt, xv) ==
  LET S == xv[1]  E == xv[2]  I == xv[3]
      bSI == RMul(RMul(beta, S), I)
  IN  << RMul(RMul(RNeg(beta), S), I),
         RSub(bSI, RMul(alpha, E)),
         RSub(RMul(alpha, E), RMul(gamma, I)),
         RNeg(RMul(gamma, I)) >>

\* infection term beta*S instead of beta*S*I
SEIRfLinearInfection(beta, alpha, gamma, tt, xv) ==
  LET S == xv[1]  E == xv[2]  I == xv[3]
      bS == RMul(beta, S)
  IN  << RMul(RNeg(beta), S),
         RSub(bS, RMul(alpha, E)),
         RSub(RMul(alpha, E), RMul(gamma, I)),
         RMul(gamma, I) >>

SEIRf(beta, alpha, gamma, tt, xv) ==
  LET S == xv[1]  E == xv[2]  I == xv[3]
      bSI == RMul(RMul(beta, S), I)
  IN  << RMul(RMul(RNeg(beta), S), I),
         RSub(bSI, RMul(alpha, E)),
         RSub(RMul(alpha, E), RMul(gamma, I)),
         RMul(gamma, I) >>

\* f(t, x) for the closure fr
CallF(fr, tt, xv) == SEIRf(fr.beta, fr.alpha, fr.gamma, tt, xv)

(***************************************************************************)
(* euler.                                                                  *)
(***************************************************************************)
\* the loop bound without the leading 1
RangeBoundNoPlusOne(a0, a1, hh) == Trunc(RDiv(RSub(a1, a0), hh))

\* 1 + int((t1 - t0) / h), for h # 0
RangeBound(a0, a1, hh) == 1 + Trunc(RDiv(RSub(a1, a0), hh))

\* t0 + k * h
StepTime(a0, kk, hh) == RAdd(a0, RMul(FromInt(kk), hh))

\* x += h * f(t, x): the array x refers to is changed in place
EulerUpdateInPlace(hp, xr, hh, fv) ==
  << [hp EXCEPT ![xr] = VAdd(hp[xr], VScale(hh, fv))], xr >>

\* x = x + h * f(t, x): the sum is a new array and x is rebound to it
EulerUpdate(hp, xr, hh, fv) ==
  << Append(hp, VAdd(hp[xr], VScale(hh, fv))), Len(hp) + 1 >>

\* the vector v is within the numbers the model follows
Fits(v) == \A i \in 1..Len(v) : Abs(v[i][1]) <= MaxNum /\ v[i][2] <= MaxNum

\* the trajectory with its references resolved
Resolve(traj, hp) == [i \in 1..Len(traj) |-> << traj[i][1], hp[traj[i][2]] >>]

\* lines 20-24 of euler, entered with x0 referring to heap object ref:
\* the locals are set and the bound of range() is evaluated
EulerEnter(a0, ref, a1, hh) ==
  /\ t0' = a0 /\ t1' = a1 /\ h' = hh
  /\ x0' = ref
  /\ t' = a0
  /\ x' = ref
  /\ trajectory' = << << a0, ref >> >>
  /\ fcalls' = << >>
  /\ k' = 0
  /\ IF hh = Zero
       THEN /\ pc' = "raised"
            /\ err' = "ZeroDivisionError"
            /\ n' = 0
       ELSE /\ pc' = "loop"
            /\ err' = "none"
            /\ n' = RangeBound(a0, a1, hh)

\* one iteration of the for loop (lines 25-27)
EulerStep ==
  /\ pc = "loop"
  /\ k < n
  /\ k < MaxSteps
  /\ Fits(<< f.beta, f.alpha, f.gamma, h >>)
  /\ Fits(heap[x])
  /\ LET tt == StepTime(t0, k, h)
         fv == CallF(f, tt, heap[x])
         upd == EulerUpdate(heap, x, h, fv)
     IN  /\ Fits(upd[1][upd[2]])
         /\ t' = tt
         /\ heap' = upd[1]
         /\ x' = upd[2]
         /\ trajectory' = Append(trajectory, << tt, upd[2] >>)
         /\ fcalls' = Append(fcalls, << tt, heap[x] >>)
  /\ k' = k + 1
  /\ UNCHANGED << pc, caller, f, simargs, t0, t1, h, x0, n, result, err >>
  /\ UNCHANGED uiVars

\* the loop is exhausted and euler returns to a direct caller (line 29)
EulerReturn ==
  /\ pc = "loop"
  /\ k >= n
  /\ caller = "euler"
  /\ pc' = "done"
  /\ result' = Resolve(trajectory, heap)
  /\ UNCHANGED << caller, f, simargs, t0, t1, h, heap, x0, x, t, k, n,
                  trajectory, fcalls, err >>
  /\ UNCHANGED uiVars

(***************************************************************************)
(* SEIR_simulation.                                                        *)
(***************************************************************************)
\* S0 computed without I0
SimS0ForgetsI0(E0, I0) == RSub(One, E0)

\* S0 = 1.0 - E0 - I0
SimS0(E0, I0) == RSub(RSub(One, E0), I0)

\* x0 = np.array([S0, E0, I0, 0.0])
SimX0(E0, I0) == << SimS0(E0, I0), E0, I0, Zero >>

\* t, x = zip(*result); return np.array(t), np.array(x).T
SimResult(traj, hp) ==
  LET r == Resolve(traj, hp)
  IN  << [i \in 1..Len(r) |-> r[i][1]],
         [c \in 1..4 |-> [i \in 1..Len(r) |-> r[i][2][c]]] >>

NoSim == [E0 |-> Zero, I0 |-> Zero, days |-> Zero, step |-> Zero]
NoF == [beta |-> Zero, alpha |-> Zero, gamma |-> Zero]

\* lines 71-74: build x0 and f and enter euler(f, 0, x0, days, step)
SimEnter(beta, alpha, gamma, E0, I0, days, step) ==
  /\ f' = [beta |-> beta, alpha |-> alpha, gamma |-> gamma]
  /\ simargs' = [E0 |-> E0, I0 |-> I0, days |-> days, step |-> step]
  /\ heap' = << SimX0(E0, I0) >>
  /\ EulerEnter(Zero, 1, days, step)
  /\ result' = << >>

\* euler returns into SEIR_simulation, which returns (lines 74-76)
SimReturn ==
  /\ pc = "loop"
  /\ k >= n
  /\ caller = "sim"
  /\ pc' = "done"
  /\ result' = SimResult(trajectory, heap)
  /\ UNCHANGED << caller, f, simargs, t0, t1, h, heap, x0, x, t, k, n,
                  trajectory, fcalls, err >>
  /\ UNCHANGED uiVars

(***************************************************************************)
(* Inputs of the calls.                                                    *)
(***************************************************************************)
Rates == { Rat(p, 2) : p \in 0..MaxRateNum }
Fractions == { Rat(p, 2) : p \in -1..MaxFracNum }
Days == { FromInt(d) : d \in -1..MaxDays }
Steps == { Rat(p, 2) : p \in -1..MaxStepNum } \cup { FromInt(3) }
StartTimes == { Zero, One }
EndTimes == { FromInt(d) : d \in -1..MaxT1 } \cup { FromInt(10) }
Half == Rat(1, 2)
StartStates == { << One, Zero, Zero, Zero >>,
                 << Half, Half, Zero, Zero >>,
                 << Half, Zero, Half, Zero >> }

\* a caller calls euler(f, t0, x0, t1, h) with f = SEIR_model(beta, alpha, gamma)
CallEuler(beta, alpha, gamma, a0, xv, a1, hh) ==
  /\ pc = "idle"
  /\ caller' = "euler"
  /\ f' = [beta |-> beta, alpha |-> alpha, gamma |-> gamma]
  /\ simargs' = NoSim
  /\ heap' = << xv >>
  /\ EulerEnter(a0, 1, a1, hh)
  /\ result' = << >>
  /\ UNCHANGED uiVars

\* a caller calls SEIR_simulation(beta, alpha, gamma, E0, I0, days, step)
CallSim(beta, alpha, gamma, E0, I0, days, step) ==
  /\ pc = "idle"
  /\ caller' = "sim"
  /\ SimEnter(beta, alpha, gamma, E0, I0, days, step)
  /\ UNCHANGED uiVars

(***************************************************************************)
(* Text of the text boxes and its conversion by int() and float().         *)
(* A text is a sequence of one-character strings.                          *)
(***************************************************************************)
DigitChars == << "0", "1", "2", "3", "4", "5", "6", "7", "8", "9" >>
IsDigit(c) == \E i \in 1..10 : DigitChars[i] = c
DigitVal(c) == (CHOOSE i \in 1..10 : DigitChars[i] = c) - 1

RECURSIVE DigitsVal(_)
DigitsVal(s) ==
  IF s = << >> THEN 0
  ELSE DigitsVal(SubSeq(s, 1, Len(s) - 1)) * 10 + DigitVal(s[Len(s)])

RECURSIVE Pow10(_)
Pow10(e) == IF e = 0 THEN 1 ELSE 10 * Pow10(e - 1)

HasSign(s) == Len(s) >= 1 /\ s[1] \in { "+", "-" }
Unsigned(s) == IF HasSign(s) THEN Tail(s) ELSE s
SignOf(s) == IF HasSign(s) /\ s[1] = "-" THEN -1 ELSE 1

\* int(s) succeeds: an optional sign and one or more decimal digits
IsIntText(s) ==
  LET b == Unsigned(s)
  IN  Len(b) >= 1 /\ \A i \in 1..Len(b) : IsDigit(b[i])

\* int(s) for a text it accepts
IntOf(s) == SignOf(s) * DigitsVal(Unsigned(s))

\* float(s) succeeds: an optional sign, digits with at most one point,
\* at least one digit (texts are over digits, sign and point; exponents,
\* "inf" and "nan" are not among the texts submitted here)
IsFloatText(s) ==
  LET b == Unsigned(s)
  IN  /\ \A i \in 1..Len(b) : IsDigit(b[i]) \/ b[i] = "."
      /\ \E i \in 1..Len(b) : IsDigit(b[i])
      /\ Cardinality({ i \in 1..Len(b) : b[i] = "." }) <= 1

\* float(s) for a text it accepts
FloatOf(s) ==
  LET b == Unsigned(s)
      p == IF \E i \in 1..Len(b) : b[i] = "."
             THEN CHOOSE i \in 1..Len(b) : b[i] = "."
             ELSE Len(b) + 1
      ip == SubSeq(b, 1, p - 1)
      fp == SubSeq(b, p + 1, Len(b))
  IN  Rat(SignOf(s) * DigitsVal(ip \o fp), Pow10(Len(fp)))

(***************************************************************************)
(* diagram: the widgets and the update handler.                            *)
(***************************************************************************)
Boxes == { "N", "E0", "I0", "days", "alpha", "gamma" }

\* the texts the boxes are created with (lines 123-130)
InitialTexts ==
  [ N     |-> << "1", "0", "0", "0", "0", "0", "0", "0" >>,
    E0    |-> << "1", "0", "0", "0", "0" >>,
    I0    |-> << "2", "0", "0", "0" >>,
    days  |-> << "1", "4", "0" >>,
    alpha |-> << "0", ".", "1", "8", "1", "8" >>,
    gamma |-> << "0", ".", "3", "3", "3", "3" >> ]

\* slider_R0 is created with valinit = initial_R0 = 1.0
InitialSlider == One

\* the four lines as plotted at construction from the initial simulation
\* (lines 95-108); the points of that run are not enumerated
InitialLines == << "initial", << >> >>

\* texts a user submits and values a user drags the slider to
TextChoices == { << "0" >>, << "1" >>, << ".", "5" >> }
SliderChoices == { One, FromInt(2) }

\* the default of SEIR_simulation's parameter step
DefaultStep == Rat(1, 10)

\* the first exception lines 150-155 raise for the texts tx, "none" if none
ParseError(tx) ==
  IF ~IsIntText(tx.N) THEN "ValueError"
  ELSE IF ~IsIntText(tx.E0) THEN "ValueError"
  ELSE IF IntOf(tx.N) = 0 THEN "ZeroDivisionError"
  ELSE IF ~IsIntText(tx.I0) THEN "ValueError"
  ELSE IF ~IsIntText(tx.days) THEN "ValueError"
  ELSE IF ~IsFloatText(tx.alpha) THEN "ValueError"
  ELSE IF ~IsFloatText(tx.gamma) THEN "ValueError"
  ELSE "none"

\* no call of euler or SEIR_simulation is running
CoreIdle ==
  /\ pc' = "idle" /\ caller' = "none"
  /\ heap' = << >> /\ x0' = 0 /\ x' = 0
  /\ t0' = Zero /\ t1' = Zero /\ h' = Zero /\ t' = Zero
  /\ k' = 0 /\ n' = 0
  /\ trajectory' = << >> /\ fcalls' = << >> /\ result' = << >>

\* update(val) run with the widgets holding texts tx and slider value sl,
\* up to its return, its exception or its call of euler's loop
Update(tx, sl) ==
  LET pe == ParseError(tx)
  IN  IF pe = "ValueError"
        THEN \* except ValueError: print(...); return
             /\ CoreIdle
             /\ err' = "none"
             /\ outcome' = [how |-> "invalid_input", simcalls |-> 0]
             /\ UNCHANGED << f, simargs, lines >>
      ELSE IF pe = "ZeroDivisionError"
        THEN \* not caught by the handler
             /\ CoreIdle
             /\ err' = "ZeroDivisionError"
             /\ outcome' = [how |-> "unhandled", simcalls |-> 0]
             /\ UNCHANGED << f, simargs, lines >>
      ELSE LET N == IntOf(tx.N)
               E0 == Rat(IntOf(tx.E0), N)
               I0 == Rat(IntOf(tx.I0), N)
               days == FromInt(IntOf(tx.days))
               alpha == FloatOf(tx.alpha)
               gamma == FloatOf(tx.gamma)
               R0 == sl
               beta == RMul(R0, gamma)
           IN  /\ caller' = "update"
               /\ SimEnter(beta, alpha, gamma, E0, I0, days, DefaultStep)
               /\ outcome' = [how |-> "running", simcalls |-> 1]
               /\ UNCHANGED lines

\* the user submits text txt in text box b (on_submit calls update)
Submit(b, txt) ==
  /\ pc = "idle"
  /\ texts' = [texts EXCEPT ![b] = txt]
  /\ UNCHANGED slider
  /\ Update(texts', slider)

\* the user moves the slider to v (on_changed calls update)
SliderChange(v) ==
  /\ pc = "idle"
  /\ v # slider
  /\ slider' = v
  /\ UNCHANGED texts
  /\ Update(texts, v)

\* the data the four lines get from the result << t, << S, E, I, R >> >>
LinesOf(res) == << "update", [c \in 1..4 |-> << res[1], res[2][c] >>] >>

\* euler and SEIR_simulation return into update, which replaces the plotted
\* data and returns (lines 164-178)
UpdateFinish ==
  /\ pc = "loop"
  /\ k >= n
  /\ caller = "update"
  /\ lines' = LinesOf(SimResult(trajectory, heap))
  /\ outcome' = [how |-> "replaced", simcalls |-> outcome.simcalls]
  /\ CoreIdle
  /\ UNCHANGED << f, simargs, err, texts, slider >>

(***************************************************************************)
(* Specifications.                                                         *)
(***************************************************************************)
\* the state after diagram() has built the widgets
Init ==
  /\ pc = "idle" /\ caller = "none"
  /\ f = NoF /\ simargs = NoSim
  /\ heap = << >> /\ x0 = 0 /\ x = 0
  /\ t0 = Zero /\ t1 = Zero /\ h = Zero /\ t = Zero
  /\ k = 0 /\ n = 0
  /\ trajectory = << >> /\ fcalls = << >> /\ result = << >>
  /\ err = "none"
  /\ texts = InitialTexts
  /\ slider = InitialSlider
  /\ lines = InitialLines
  /\ outcome = [how |-> "none", simcalls |-> 0]

\* a caller of the numerical core calls euler directly
DirectEuler ==
  /\ pc = "idle"
  /\ \E beta \in Rates, alpha \in Rates, gamma \in Rates,
        a0 \in StartTimes, xv \in StartStates, a1 \in EndTimes, hh \in Steps :
       CallEuler(beta, alpha, gamma, a0, xv, a1, hh)

\* a caller of the numerical core calls SEIR_simulation
DirectSim ==
  /\ pc = "idle"
  /\ \E beta \in Rates, alpha \in Rates, gamma \in Rates,
        E0 \in Fractions, I0 \in Fractions, days \in Days, step \in Steps :
       CallSim(beta, alpha, gamma, E0, I0, days, step)

\* the numerical core called directly
Next ==
  \/ DirectEuler
  \/ DirectSim
  \/ EulerStep
  \/ EulerReturn
  \/ SimReturn

Spec == Init /\ [][Next]_vars

\* the user submits a text in one of the text boxes
UserSubmit ==
  /\ pc = "idle"
  /\ \E b \in Boxes, txt \in TextChoices : Submit(b, txt)

\* the user drags the slider
UserSlide ==
  /\ pc = "idle"
  /\ \E v \in SliderChoices : SliderChange(v)

\* the interactive program
NextUI ==
  \/ UserSubmit
  \/ UserSlide
  \/ EulerStep
  \/ UpdateFinish

SpecUI == Init /\ [][NextUI]_vars

(***************************************************************************)
(* Properties.                                                             *)
(***************************************************************************)
\* floor(a), computed independently of int()
Floor(a) ==
  IF a[1] >= 0 THEN a[1] \div a[2] ELSE -((a[2] - a[1] - 1) \div a[2])

\* (t1 - t0) / h of the running call, for h # 0
Quotient == RDiv(RSub(t1, t0), h)

\* euler has returned (to a direct caller or into SEIR_simulation)
Returned == pc = "done"

\* the state vector of entry i of the trajectory
StateAt(i) == heap[trajectory[i][2]]
\* the time of entry i of the trajectory
TimeAt(i) == trajectory[i][1]

RSum4(v) == RAdd(RAdd(RAdd(v[1], v[2]), v[3]), v[4])
NonNeg(v) == \A c \in 1..4 : RLe(Zero, v[c])
InUnit(v) == \A c \in 1..4 : RLe(Zero, v[c]) /\ RLe(v[c], One)

\* the arguments of the SEIR_simulation call satisfy the preconditions on
\* E0, I0, days and step
ValidSimArgs ==
  /\ RLe(Zero, simargs.E0) /\ RLe(Zero, simargs.I0)
  /\ RLe(RAdd(simargs.E0, simargs.I0), One)
  /\ RLt(Zero, simargs.days)
  /\ RLt(Zero, simargs.step)

PositiveRates ==
  RLt(Zero, f.beta) /\ RLt(Zero, f.alpha) /\ RLt(Zero, f.gamma)

\* step*beta <= 1, step*alpha <= 1, step*gamma <= 1
StableStep ==
  /\ RLe(RMul(h, f.beta), One)
  /\ RLe(RMul(h, f.alpha), One)
  /\ RLe(RMul(h, f.gamma), One)

\* C1: for h > 0 and t1 >= t0, euler performs exactly 1 + floor((t1-t0)/h)
\* update steps and returns a trajectory of exactly 2 + floor((t1-t0)/h)
\* entries.
C1_StepCount ==
  (Returned /\ RLt(Zero, h) /\ RLe(t0, t1)) =>
     /\ Len(fcalls) = 1 + Floor(Quotient)
     /\ k = 1 + Floor(Quotient)
     /\ Len(trajectory) = 2 + Floor(Quotient)
     /\ (caller = "euler" => Len(result) = 2 + Floor(Quotient))
     /\ (caller = "sim" => Len(result[1]) = 2 + Floor(Quotient))

\* a call with h > 0 whose quotient (t1-t0)/h is not an integer has returned
\* after at least two steps
C1_Witness ==
  /\ Returned /\ RLt(Zero, h) /\ RLt(t0, t1)
  /\ Quotient[2] # 1
  /\ Len(trajectory) >= 4

\* C2: for h > 0 and t1 >= t0 the time of the last entry of the returned
\* trajectory is not before t1 and exceeds it by at most h; for t0 = 0,
\* t1 = 10, h = 3 the emitted times are 0, 3, 6, 9, 12.
C2_LastTimeReachesT1 ==
  (Returned /\ RLt(Zero, h) /\ RLe(t0, t1)) =>
     /\ RLe(t1, TimeAt(Len(trajectory)))
     /\ RLe(TimeAt(Len(trajectory)), RAdd(t1, h))
     /\ (t0 = Zero /\ t1 = FromInt(10) /\ h = FromInt(3) =>
           [i \in 1..Len(trajectory) |-> TimeAt(i)] =
             << FromInt(0), FromInt(3), FromInt(6), FromInt(9), FromInt(12) >>)

\* C3: in the returned trajectory (and in the time sequence SEIR_simulation
\* returns) consecutive times differ by exactly h, so no time occurs twice.
C3_EqualSpacing ==
  (Returned /\ RLt(Zero, h)) =>
     /\ \A i \in 1..(Len(trajectory) - 1) :
          RSub(TimeAt(i + 1), TimeAt(i)) = h
     /\ \A i \in 1..Len(trajectory), j \in 1..Len(trajectory) :
          i # j => TimeAt(i) # TimeAt(j)
     /\ (caller = "sim" =>
           \A i \in 1..(Len(result[1]) - 1) :
             RSub(result[1][i + 1], result[1][i]) = h)

\* C4: the returned trajectory starts with (t0, x0); the state of entry k+1
\* is the state of entry k plus h times f evaluated at t0 + k*h and the
\* state of entry k; f is called exactly once per step; the caller's x0
\* array still holds the value it was passed with.
C4_UpdateRule ==
  Returned =>
     /\ trajectory[1] = << t0, x0 >>
     /\ \A i \in 1..(Len(trajectory) - 1) :
          /\ StateAt(i + 1) =
               VAdd(StateAt(i),
                    VScale(h, CallF(f, RAdd(t0, RMul(FromInt(i - 1), h)),
                                    StateAt(i))))
          /\ fcalls[i] = << RAdd(t0, RMul(FromInt(i - 1), h)), StateAt(i) >>
     /\ Len(fcalls) = Len(trajectory) - 1
     /\ (Len(fcalls) >= 1 => heap[x0] = fcalls[1][2])
     /\ (caller = "sim" => heap[x0] = SimX0(simargs.E0, simargs.I0))

\* euler has returned after at least two steps that changed the state
C4_Witness ==
  /\ Returned
  /\ Len(trajectory) >= 3
  /\ StateAt(2) # StateAt(1)
  /\ StateAt(3) # StateAt(2)

\* C5: the four derivatives f returns sum to zero for every state f is
\* called with, and at every index of the output of SEIR_simulation
\* S + E + I + R = 1.
C5_MassConservation ==
  /\ \A i \in 1..Len(fcalls) :
       RSum4(CallF(f, fcalls[i][1], fcalls[i][2])) = Zero
  /\ (caller = "sim" /\ Returned) =>
       \A i \in 1..Len(result[1]) :
         RSum4(<< result[2][1][i], result[2][2][i],
                  result[2][3][i], result[2][4][i] >>) = One

\* SEIR_simulation has returned a trajectory along which mass moved from S
\* to E
C5_Witness ==
  /\ caller = "sim" /\ Returned
  /\ Len(result[1]) >= 3
  /\ RLt(result[2][1][3], result[2][1][1])
  /\ f.alpha # Zero /\ result[2][2][1] # Zero

\* C6: SEIR_simulation validates its inputs before building x0 and calling
\* the integrator: step <= 0 yields InvalidStepSize, E0 < 0, I0 < 0 or
\* E0 + I0 > 1 yields InvalidInitialFractions, days <= 0 yields
\* InvalidHorizon, and no integration step is executed and no trajectory
\* returned in these cases.
C6_InputsValidated ==
  LET badStep == RLe(simargs.step, Zero)
      badFractions == \/ RLt(simargs.E0, Zero)
                      \/ RLt(simargs.I0, Zero)
                      \/ RLt(One, RAdd(simargs.E0, simargs.I0))
      badHorizon == RLe(simargs.days, Zero)
  IN  (caller = "sim" /\ (badStep \/ badFractions \/ badHorizon)) =>
        /\ pc = "raised"
        /\ fcalls = << >>
        /\ result = << >>
        /\ err \in { "InvalidStepSize", "InvalidInitialFractions",
                     "InvalidHorizon" }
        /\ (err = "InvalidStepSize" => badStep)
        /\ (err = "InvalidInitialFractions" => badFractions)
        /\ (err = "InvalidHorizon" => badHorizon)

\* C7 as stated: for every valid parameter set (beta, alpha, gamma > 0,
\* E0, I0 >= 0, E0 + I0 <= 1, days > 0, step > 0) all four compartments are
\* >= 0 at every index of the trajectory SEIR_simulation returns.
C7_NonNegative ==
  (caller = "sim" /\ Returned /\ ValidSimArgs /\ PositiveRates) =>
     \A i \in 1..Len(trajectory) : NonNeg(StateAt(i))

\* C7 amended: for every valid parameter set that also satisfies
\* step*beta <= 1, step*alpha <= 1 and step*gamma <= 1, all four
\* compartments are >= 0 at every index of the returned trajectory
\* (in the exact arithmetic of this module).
C7_NonNegativeStable ==
  (caller = "sim" /\ Returned /\ ValidSimArgs /\ PositiveRates
     /\ StableStep) =>
     \A i \in 1..Len(result[1]) : \A c \in 1..4 : RLe(Zero, result[2][c][i])

\* a valid, stable call with exposed and infectious individuals has
\* returned after at least two steps
C7_Witness ==
  /\ caller = "sim" /\ Returned /\ ValidSimArgs /\ PositiveRates
  /\ StableStep
  /\ RLt(Zero, simargs.E0) /\ RLt(Zero, simargs.I0)
  /\ Len(result[1]) >= 3

\* C8: with E0 = 0 and I0 = 0, for every beta, alpha, gamma, days and
\* step > 0, every entry of the trajectory SEIR_simulation returns is
\* (1, 0, 0, 0).
C8_NoEpidemicFromNothing ==
  (caller = "sim" /\ Returned /\ simargs.E0 = Zero /\ simargs.I0 = Zero
     /\ RLt(Zero, simargs.step)) =>
     \A i \in 1..Len(result[1]) :
       << result[2][1][i], result[2][2][i], result[2][3][i],
          result[2][4][i] >> = << One, Zero, Zero, Zero >>

\* a call with E0 = I0 = 0 and positive rates has returned after at least
\* two steps
C8_Witness ==
  /\ caller = "sim" /\ Returned
  /\ simargs.E0 = Zero /\ simargs.I0 = Zero
  /\ RLt(Zero, simargs.step)
  /\ PositiveRates
  /\ Len(result[1]) >= 3

\* C9: a run of the update handler ends either with SEIR_simulation called
\* once with beta = R0*gamma, E0 = E0_count/N, I0 = I0_count/N and the four
\* plotted series replaced, or with the invalid-input message, no call of
\* SEIR_simulation and the plotted series unchanged; it never ends with an
\* unhandled error.
C9_HandlerEnds ==
  [][ (pc' = "idle" /\ outcome'.how # "none") =>
        \/ /\ outcome'.how = "replaced"
           /\ outcome'.simcalls = 1
           /\ f'.gamma = FloatOf(texts'.gamma)
           /\ f'.alpha = FloatOf(texts'.alpha)
           /\ f'.beta = RMul(slider', FloatOf(texts'.gamma))
           /\ simargs'.E0 = Rat(IntOf(texts'.E0), IntOf(texts'.N))
           /\ simargs'.I0 = Rat(IntOf(texts'.I0), IntOf(texts'.N))
           /\ lines' = LinesOf(SimResult(trajectory, heap))
        \/ /\ outcome'.how = "invalid_input"
           /\ outcome'.simcalls = 0
           /\ lines' = lines ]_vars

====
